---- MODULE Spec2Model ----
(***************************************************************************)
(* QuantumQuake: the two circuit programs (apps/quantum/main.py,           *)
(* inference.py), the seismicity feature pipeline and the risk scoring     *)
(* loop of run_inference (inference.py).                                   *)
(*                                                                         *)
(* Numbers.  Floating point values are carried as exact rationals with     *)
(* the two IEEE specials the code can produce (inf from a division by      *)
(* zero in b_value, nan from np.nan).  Magnitudes, depths and coordinates  *)
(* are in tenths of their unit.  Rotation angles are in units of pi/2; the *)
(* simulator's arithmetic is exact on that grid (amplitudes are integers   *)
(* over a power of sqrt 2).                                                *)
(***************************************************************************)
EXTENDS Integers, Sequences, FiniteSets, TLC

VARIABLES
    pc,                 \* position of the running operation
    req,                \* the call being served: [fn, features, weights]
    ret,                \* what the call returned or raised
    counts,             \* result.get_counts() of the last anomaly run
    tape,               \* gates of the last circuit, in application order
    dev,                \* register of the module-level device `dev`
    weights,            \* weights.npy as loaded
    X_scaled,           \* scaler.transform(X), one row per cell
    risk_cells,         \* per table row: the scored cell, or NoCell
    out,                \* circuit output handed to the risk mapping
    prob,               \* float((1 - out) / 2)
    risk,               \* "high" | "moderate" | "low"
    raw,                \* resp.json()["features"], the catalog rows
    df,                 \* the event table with its derived columns
    features,           \* the per-cell feature table
    notable_map,        \* cell -> notable event
    geojson_features    \* the emitted records

vars == <<pc, req, ret, counts, tape, dev, weights, X_scaled, risk_cells,
          out, prob, risk, raw, df, features, notable_map, geojson_features>>

----------------------------------------------------------------------------
(* Bounds of the model *)

LenSlack == 1       \* feature vectors are up to this much shorter/longer than the qubit count
MaxLayers == 2      \* weight tensors have 0..MaxLayers layers in the circuit specifications
MaxCells == 2       \* rows per batch in the scoring specification
ProbGrid == 50      \* circuit outputs are drawn from {-1 + j/(10*ProbGrid)}
MaxRows == 2        \* rows of an arbitrary catalog
MaxRun == 5         \* events per cell of a dense catalog

----------------------------------------------------------------------------
(* Exact numbers: [k |-> "fin", n |-> numerator, d |-> denominator > 0],   *)
(* or inf, or nan.                                                         *)

Abs(x) == IF x < 0 THEN -x ELSE x

RECURSIVE GCD(_, _)
GCD(a, b) == IF b = 0 THEN a ELSE GCD(b, a % b)

Fin(n, d) ==
    LET g == GCD(Abs(n), Abs(d))
        s == IF d < 0 THEN -1 ELSE 1
    IN  [k |-> "fin", n |-> (s * n) \div g, d |-> (s * d) \div g]

Int2Num(n) == [k |-> "fin", n |-> n, d |-> 1]
NaN == [k |-> "nan", n |-> 0, d |-> 1]
Inf == [k |-> "inf", n |-> 1, d |-> 1]

IsFin(x) == x.k = "fin"
IsNaN(x) == x.k = "nan"

Add(x, y) ==
    IF IsNaN(x) \/ IsNaN(y) THEN NaN
    ELSE IF x.k = "inf" \/ y.k = "inf" THEN Inf
    ELSE Fin(x.n * y.d + y.n * x.d, x.d * y.d)

\* x - y and x / y for a finite y (y # 0 for the quotient)
Sub(x, y) ==
    IF IsNaN(x) \/ IsNaN(y) THEN NaN
    ELSE IF x.k = "inf" THEN Inf
    ELSE Fin(x.n * y.d - y.n * x.d, x.d * y.d)

Quot(x, y) ==
    IF IsNaN(x) \/ IsNaN(y) THEN NaN
    ELSE IF x.k = "inf" THEN Inf
    ELSE Fin(x.n * y.d, x.d * y.n)

\* x > y as the float comparison evaluates it: False whenever a nan is involved
Gt(x, y) ==
    IF IsNaN(x) \/ IsNaN(y) THEN FALSE
    ELSE IF x.k = "inf" THEN y.k # "inf"
    ELSE IF y.k = "inf" THEN FALSE
    ELSE x.n * y.d > y.n * x.d

Le(x, y) ==
    IF IsNaN(x) \/ IsNaN(y) THEN FALSE
    ELSE ~Gt(x, y)

Floor(x) == x.n \div x.d

RECURSIVE Pow2(_)
Pow2(e) == IF e = 0 THEN 1 ELSE 2 * Pow2(e - 1)

----------------------------------------------------------------------------
(* The statevector simulator behind qml.device("default.qubit") and        *)
(* AerSimulator.  A register of Q qubits is                                *)
(*   [amp : 0..2^Q-1 -> Int, k : Nat, nan : BOOLEAN],                      *)
(* the amplitude of basis state i being amp[i] / sqrt(2)^k; bit q of i is  *)
(* the value of qubit q.                                                   *)

Bit(i, q) == (i \div Pow2(q)) % 2
FlipBit(i, q) == IF Bit(i, q) = 0 THEN i + Pow2(q) ELSE i - Pow2(q)

\* a function as the array of its values (every entry computed once)
Array(f) == f @@ <<>>

ZeroState(Q) ==
    [amp |-> [i \in 0..(Pow2(Q) - 1) |-> IF i = 0 THEN 1 ELSE 0], k |-> 0, nan |-> FALSE]

\* cos and sin of m * pi/4 (the half angle of a rotation by m * pi/2),
\* times sqrt 2 when m is odd
Cos8(m) == CASE m \in {0, 1, 7} -> 1 [] m \in {2, 6} -> 0 [] OTHER -> -1
Sin8(m) == CASE m \in {1, 2, 3} -> 1 [] m \in {0, 4} -> 0 [] OTHER -> -1

\* the grid point of an angle: rotations are resolved to multiples of pi/2
Quarter(theta) == Floor(theta) % 8

\* RY(theta) on qubit q: [[cos, -sin], [sin, cos]] of theta/2 on every pair
\* of basis states that differ in bit q only
RY(st, theta, q) ==
    IF st.nan \/ ~IsFin(theta)
    THEN [amp |-> [i \in DOMAIN st.amp |-> 0], k |-> 0, nan |-> TRUE]
    ELSE LET m == Quarter(theta)
             c == Cos8(m)
             s == Sin8(m)
             a == st.amp
         IN  [amp |-> Array([i \in DOMAIN a |->
                         IF Bit(i, q) = 0
                         THEN c * a[i] - s * a[FlipBit(i, q)]
                         ELSE s * a[FlipBit(i, q)] + c * a[i]]),
              k   |-> st.k + (m % 2),
              nan |-> FALSE]

\* CNOT(control, target): swap the amplitudes of i and i with the target bit
\* flipped wherever the control bit is 1
CNOT(st, c, t) ==
    [amp |-> Array([i \in DOMAIN st.amp |->
                IF Bit(i, c) = 1 THEN st.amp[FlipBit(i, t)] ELSE st.amp[i]]),
     k   |-> st.k,
     nan |-> st.nan]

ApplyGate(st, g) ==
    IF g.g = "RY" THEN RY(st, g.theta, g.q) ELSE CNOT(st, g.c, g.t)

RECURSIVE Run(_, _, _)
\* the register after the gates i.. have been applied to st, one after the other
Run(st, gates, i) ==
    IF i > Len(gates) THEN st
    ELSE CHOOSE final \in {Run(next, gates, i + 1) : next \in {ApplyGate(st, gates[i])}} : TRUE

RECURSIVE SumAmp2(_, _, _, _)
\* sum over i <= hi of amp[i]^2 * (sign of bit q of i, or 1 for the bit being set when sgn = FALSE)
SumAmp2(st, q, hi, sgn) ==
    IF hi < 0 THEN 0
    ELSE LET a2 == st.amp[hi] * st.amp[hi]
             w  == IF sgn THEN (IF Bit(hi, q) = 0 THEN 1 ELSE -1)
                          ELSE (IF Bit(hi, q) = 1 THEN 1 ELSE 0)
         IN  w * a2 + SumAmp2(st, q, hi - 1, sgn)

Top(st) == Cardinality(DOMAIN st.amp) - 1

\* qml.expval(qml.PauliZ(q)): the analytic expectation value
ExpvalZ(st, q) ==
    IF st.nan THEN NaN ELSE Fin(SumAmp2(st, q, Top(st), TRUE), Pow2(st.k))

\* probability of reading qubit q as 1
ProbOne(st, q) ==
    IF st.nan THEN NaN ELSE Fin(SumAmp2(st, q, Top(st), FALSE), Pow2(st.k))

\* the basis states a measurement of the register can yield
Support(st) == {i \in DOMAIN st.amp : st.amp[i] # 0}

RyGate(theta, q) == [g |-> "RY", theta |-> theta, q |-> q]
CnotGate(c, t) == [g |-> "CNOT", c |-> c, t |-> t]

----------------------------------------------------------------------------
(* Anomaly-score mode: apps/quantum/main.py *)

Shots == 1000
AnomalyQubits == 4

\* the key of a basis state in get_counts(): classical bit 3 first
BitString(i) ==
    ToString(Bit(i, 3)) \o ToString(Bit(i, 2)) \o ToString(Bit(i, 1)) \o ToString(Bit(i, 0))

\* control and target of every CNOT exchanged
AnomalyGates_swapped(fv) ==
    [i \in 1..Len(fv) |-> RyGate(Quot(fv[i], Fin(1, 2)), i - 1)]
        \o [i \in 1..3 |-> CnotGate(i, i - 1)]

\* qc.ry(float(f) * np.pi, i) for every feature, then qc.cx(i, i + 1), i = 0..2
AnomalyGates(fv) ==
    [i \in 1..Len(fv) |-> RyGate(Quot(fv[i], Fin(1, 2)), i - 1)]
        \o [i \in 1..3 |-> CnotGate(i - 1, i)]

RECURSIVE Histograms(_, _)
\* every histogram that n shots over the outcomes S can give: the observed
\* outcomes with their (positive) counts
Histograms(S, n) ==
    IF S = {} THEN (IF n = 0 THEN {<<>>} ELSE {})
    ELSE LET b == CHOOSE x \in S : TRUE
         IN  IF Cardinality(S) = 1
             THEN (IF n = 0 THEN {<<>>} ELSE {(BitString(b) :> n)})
             ELSE UNION {
                    {IF c = 0 THEN h ELSE (BitString(b) :> c) @@ h : h \in Histograms(S \ {b}, n - c)}
                    : c \in 0..n}

\* counts.get("1111", 0)
GetCount(h, key) == IF key \in DOMAIN h THEN h[key] ELSE 0

NoReq == [fn |-> "none", features |-> <<>>, weights |-> <<>>]
NoRet == [kind |-> "none", val |-> NaN]
Raise(e) == [kind |-> e, val |-> NaN]
Return(v) == [kind |-> "ok", val |-> v]

quantum_anomaly_score ==
    /\ pc = "call"
    /\ req.fn = "_quantum_anomaly_score"
    /\ IF Len(req.features) # AnomalyQubits
       THEN /\ ret' = Raise("ValueError")
            /\ UNCHANGED <<counts, tape>>
       ELSE LET gates == AnomalyGates(req.features)
                final == Run(ZeroState(AnomalyQubits), gates, 1)
            IN  /\ tape' = gates
                /\ \E h \in Histograms(Support(final), Shots) :
                      /\ counts' = h
                      /\ ret' = Return(Fin(GetCount(h, "1111"), Shots))
    /\ pc' = "done"
    /\ UNCHANGED <<req, dev, weights, X_scaled, risk_cells, out, prob, risk,
                   raw, df, features, notable_map, geojson_features>>

----------------------------------------------------------------------------
(* Classifier mode: inference.py *)

ClassifierQubits == 5

\* for i in range(5): qml.RY(features[i], wires=i)
encode(f) == [i \in 1..5 |-> RyGate(f[i], i - 1)]

\* the rotations of a layer ahead of its CNOT chain
layer_ry_first(w) ==
    [i \in 1..5 |-> RyGate(w[i], i - 1)] \o [i \in 1..4 |-> CnotGate(i - 1, i)]

\* for i in range(4): CNOT(i, i + 1); for i in range(5): RY(weights[i], i)
layer(w) ==
    [i \in 1..4 |-> CnotGate(i - 1, i)] \o [i \in 1..5 |-> RyGate(w[i], i - 1)]

RECURSIVE layers(_, _)
\* for w in weights: layer(w)
layers(ws, l) == IF l > Len(ws) THEN <<>> ELSE layer(ws[l]) \o layers(ws, l + 1)

\* the operations the QNode queues
circuit_tape(f, ws) == encode(f) \o layers(ws, 1)

\* the register left by the previous execution
InitialState_carried(d) == d

\* the state an execution of the QNode starts from
InitialState(d) == ZeroState(ClassifierQubits)

\* features[i] for i in range(5) fails on a shorter vector
IndexError(f) == Len(f) < 5

\* the call circuit(features, weights) made directly
circuit ==
    /\ pc = "call"
    /\ req.fn = "circuit"
    /\ IF IndexError(req.features)
       THEN /\ ret' = Raise("IndexError")
            /\ UNCHANGED <<tape, dev>>
       ELSE LET gates == circuit_tape(req.features, req.weights)
                final == Run(InitialState(dev), gates, 1)
            IN  /\ tape' = gates
                /\ dev' = final
                /\ ret' = Return(ExpvalZ(final, 0))
    /\ pc' = "done"
    /\ UNCHANGED <<req, counts, weights, X_scaled, risk_cells, out, prob, risk,
                   raw, df, features, notable_map, geojson_features>>

----------------------------------------------------------------------------
(* The specification of the two circuit programs: one call per behaviour   *)

RECURSIVE Vectors(_, _)
Vectors(S, n) ==
    IF n = 0 THEN {<<>>} ELSE {Append(v, x) : v \in Vectors(S, n - 1), x \in S}

Lengths(Q) == {n \in (Q - LenSlack)..(Q + LenSlack) : n >= 0}

\* features of the anomaly service: 0 and 1, and at most one 1/2
AnomalyVectors ==
    LET Halves(v) == Cardinality({i \in 1..Len(v) : v[i] = Fin(1, 2)})
    IN  UNION {{v \in Vectors({Fin(0, 1), Fin(1, 2), Fin(1, 1)}, n) : Halves(v) <= 1}
               : n \in Lengths(AnomalyQubits)}

Angles == {Int2Num(0), Int2Num(1), Int2Num(2)}

ClassifierVectors == UNION {Vectors(Angles, n) : n \in Lengths(ClassifierQubits)}

\* weight tensors of 0..MaxLayers layers: prefixes of a fixed sequence of layers
LayerAt(l) == [i \in 1..5 |-> Int2Num(((l + i) % 3) + ((l * i) % 2))]
Tensor(L) == [l \in 1..L |-> LayerAt(l)]
Tensors == {Tensor(L) : L \in 0..MaxLayers}

Idle ==
    /\ counts = <<>> /\ tape = <<>> /\ dev = ZeroState(ClassifierQubits)
    /\ weights = <<>> /\ X_scaled = <<>> /\ risk_cells = <<>>
    /\ out = NaN /\ prob = NaN /\ risk = ""
    /\ raw = <<>> /\ df = <<>> /\ features = <<>>
    /\ notable_map = <<>> /\ geojson_features = <<>>
    /\ ret = NoRet

InitCircuit ==
    /\ Idle
    /\ pc = "call"
    /\ \/ \E v \in AnomalyVectors :
            req = [fn |-> "_quantum_anomaly_score", features |-> v, weights |-> <<>>]
       \/ \E v \in ClassifierVectors, w \in {Tensor(0), Tensor(1)} :
            req = [fn |-> "circuit", features |-> v, weights |-> w]

NextCircuit == quantum_anomaly_score \/ circuit

SpecCircuit == InitCircuit /\ [][NextCircuit]_vars

----------------------------------------------------------------------------
(* The risk mapping of the scoring loop: inference.py, lines 147-148 *)

\* prob = float((1 - circuit(X_scaled[i], weights)) / 2)
RiskProb(o) == Quot(Sub(Int2Num(1), o), Int2Num(2))

\* the thresholds taken inclusively
RiskLevel_ge(p) ==
    IF ~Gt(Fin(7, 10), p) /\ ~IsNaN(p) THEN "high"
    ELSE IF ~Gt(Fin(4, 10), p) /\ ~IsNaN(p) THEN "moderate"
    ELSE "low"

\* risk = "high" if prob > 0.7 else "moderate" if prob > 0.4 else "low"
RiskLevel(p) ==
    IF Gt(p, Fin(7, 10)) THEN "high"
    ELSE IF Gt(p, Fin(4, 10)) THEN "moderate"
    ELSE "low"

\* the two statements applied to a circuit output
risk_mapping ==
    /\ pc = "map"
    /\ prob' = RiskProb(out)
    /\ risk' = RiskLevel(RiskProb(out))
    /\ pc' = "done"
    /\ UNCHANGED <<req, ret, counts, tape, dev, weights, X_scaled, risk_cells, out,
                   raw, df, features, notable_map, geojson_features>>

\* expectation values in [-1, 1], in steps of 1/(10 * ProbGrid)
Outputs == {Fin(j, 10 * ProbGrid) : j \in (-10 * ProbGrid)..(10 * ProbGrid)}

InitRisk ==
    /\ counts = <<>> /\ tape = <<>> /\ dev = ZeroState(ClassifierQubits)
    /\ weights = <<>> /\ X_scaled = <<>> /\ risk_cells = <<>>
    /\ prob = NaN /\ risk = ""
    /\ raw = <<>> /\ df = <<>> /\ features = <<>>
    /\ notable_map = <<>> /\ geojson_features = <<>>
    /\ ret = NoRet /\ req = NoReq
    /\ pc = "map"
    /\ out \in Outputs

NextRisk == risk_mapping

SpecRisk == InitRisk /\ [][NextRisk]_vars

----------------------------------------------------------------------------
(* The scoring loop on its own: inference.py, lines 146-148, over a batch  *)
(* of scaled rows, the rows being taken in any order.                      *)

NoCell == [scored |-> FALSE, prob |-> NaN, risk |-> ""]

\* one iteration: the QNode runs on the device, the output is mapped
ScoreRow(i) ==
    LET gates == circuit_tape(X_scaled[i], weights)
        final == Run(InitialState(dev), gates, 1)
        o     == ExpvalZ(final, 0)
    IN  /\ req' = [fn |-> "circuit", features |-> X_scaled[i], weights |-> weights]
        /\ tape' = gates
        /\ dev' = final
        /\ out' = o
        /\ prob' = RiskProb(o)
        /\ risk' = RiskLevel(RiskProb(o))

ScoreAny ==
    /\ pc = "scoring"
    /\ \E i \in 1..Len(X_scaled) :
          /\ ~risk_cells[i].scored
          /\ ScoreRow(i)
          /\ risk_cells' = [risk_cells EXCEPT ![i] =
                              [scored |-> TRUE, prob |-> prob', risk |-> risk']]
    /\ UNCHANGED <<pc, ret, counts, weights, X_scaled,
                   raw, df, features, notable_map, geojson_features>>

\* scaled rows: angles on the grid, one row with an undefined b-value column
ScoreRows ==
    { <<Int2Num(0), Int2Num(0), Int2Num(0), Int2Num(0), Int2Num(0)>>,
      <<Int2Num(1), Int2Num(0), Int2Num(2), Int2Num(1), Int2Num(0)>>,
      <<Int2Num(2), Int2Num(1), Int2Num(1), Int2Num(3), Int2Num(-1)>>,
      <<Int2Num(3), Int2Num(2), Int2Num(1), Int2Num(0), NaN>> }

Batches == UNION {Vectors(ScoreRows, n) : n \in 1..MaxCells}

InitScore ==
    /\ counts = <<>> /\ tape = <<>> /\ dev = ZeroState(ClassifierQubits)
    /\ out = NaN /\ prob = NaN /\ risk = ""
    /\ raw = <<>> /\ df = <<>> /\ features = <<>>
    /\ notable_map = <<>> /\ geojson_features = <<>>
    /\ ret = NoRet /\ req = NoReq
    /\ pc = "scoring"
    /\ weights \in Tensors
    /\ X_scaled \in Batches
    /\ risk_cells = [i \in 1..Len(X_scaled) |-> NoCell]

NextScore == ScoreAny

SpecScore == InitScore /\ [][NextScore]_vars

----------------------------------------------------------------------------
(* run_inference: inference.py.  The catalog rows are                      *)
(*   [time, mag, place, lat, lon, depth]                                   *)
(* with time a day of the year (from 0), mag and depth in tenths, lat and  *)
(* lon in tenths of a degree.                                              *)

RECURSIVE SumSeq(_, _)
SumSeq(s, i) == IF i > Len(s) THEN 0 ELSE s[i] + SumSeq(s, i + 1)

RECURSIVE MaxSeq(_, _)
MaxSeq(s, i) ==
    IF i = Len(s) THEN s[i]
    ELSE LET m == MaxSeq(s, i + 1) IN IF s[i] >= m THEN s[i] ELSE m

Column(rows, f) == [i \in 1..Len(rows) |-> rows[i][f]]

\* pd.DataFrame([...]): a frame built from no rows has no columns
Columns(rows) ==
    IF rows = <<>> THEN {} ELSE {"time", "mag", "place", "lat", "lon", "depth"}

\* df["time"].dt.to_period("M"): January, February, March of a common year
MonthOf(t) == IF t < 31 THEN 1 ELSE IF t < 59 THEN 2 ELSE 3

\* the quotient truncated towards zero
GridOf_trunc(x) == IF x >= 0 THEN (x \div 20) * 20 ELSE -(((-x) \div 20) * 20)

\* (x // 2) * 2 on tenths of a degree: floor division
GridOf(x) == (x \div 20) * 20

RECURSIVE DigitsOf(_)
\* the character codes of the decimal digits of n >= 0
DigitsOf(n) == IF n < 10 THEN <<48 + n>> ELSE Append(DigitsOf(n \div 10), 48 + (n % 10))

\* astype(str) of a float with one decimal: "32.0", "-118.0"
FloatStr(g) ==
    (IF g < 0 THEN "-" ELSE "") \o ToString(Abs(g) \div 10) \o "." \o ToString(Abs(g) % 10)

\* the same text as character codes, for the order of the group keys
FloatCodes(g) ==
    (IF g < 0 THEN <<45>> ELSE <<>>) \o DigitsOf(Abs(g) \div 10) \o <<46>> \o DigitsOf(Abs(g) % 10)

\* df["grid_lat"].astype(str) + "," + df["grid_lon"].astype(str)
CellKey(glat, glon) == FloatStr(glat) \o "," \o FloatStr(glon)
CellCodes(glat, glon) == FloatCodes(glat) \o <<44>> \o FloatCodes(glon)

\* lines 101-105: the derived columns
MakeDf(rows) ==
    [i \in 1..Len(rows) |->
        [time     |-> rows[i].time,
         mag      |-> rows[i].mag,
         place    |-> rows[i].place,
         lat      |-> rows[i].lat,
         lon      |-> rows[i].lon,
         depth    |-> rows[i].depth,
         month    |-> MonthOf(rows[i].time),
         grid_lat |-> GridOf(rows[i].lat),
         grid_lon |-> GridOf(rows[i].lon),
         cell     |-> CellKey(GridOf(rows[i].lat), GridOf(rows[i].lon))]]

\* latest_month = df["month"].max()
LatestMonth(d) == MaxSeq(Column(d, "month"), 1)

\* the whole window instead of its newest month
Latest_all(d) == d

\* latest = df[df["month"] == latest_month]
Latest(d) == LET m == LatestMonth(d) IN SelectSeq(d, LAMBDA r : r.month = m)

RECURSIVE LexLess(_, _, _)
\* string order of two keys given as character codes
LexLess(a, b, i) ==
    IF i > Len(b) THEN FALSE
    ELSE IF i > Len(a) THEN TRUE
    ELSE IF a[i] # b[i] THEN a[i] < b[i]
    ELSE LexLess(a, b, i + 1)

RowCodes(r) == CellCodes(r.grid_lat, r.grid_lon)

RECURSIVE GroupKeys(_)
\* groupby("cell"): the group keys in sorted order, each with its first row
GroupKeys(rows) ==
    IF rows = <<>> THEN <<>>
    ELSE LET least == CHOOSE i \in 1..Len(rows) :
                         /\ \A j \in 1..Len(rows) : ~LexLess(RowCodes(rows[j]), RowCodes(rows[i]), 1)
                         /\ \A j \in 1..(i - 1) : rows[j].cell # rows[i].cell
             c == rows[least].cell
         IN  <<c>> \o GroupKeys(SelectSeq(rows, LAMBDA r : r.cell # c))

Group(rows, c) == SelectSeq(rows, LAMBDA r : r.cell = c)

MMin == 30          \* m_min = 3.0
MinSample == 5

\* b_value(mags), in units of log10(e)
b_value(mags) ==
    LET sel == SelectSeq(mags, LAMBDA m : m >= MMin)
        n   == Len(sel)
    IN  IF n < MinSample THEN NaN
        ELSE LET excess == Fin(SumSeq(sel, 1) - MMin * n, 10 * n)   \* mags.mean() - m_min
             IN  IF excess.n = 0 THEN Inf ELSE Quot(Int2Num(1), excess)

RECURSIVE SumNum(_, _)
SumNum(s, i) == IF i > Len(s) THEN Int2Num(0) ELSE Add(s[i], SumNum(s, i + 1))

\* Series.mean(): over the values that are not nan; nan when there is none
MeanSkipNa(col) ==
    LET some == SelectSeq(col, LAMBDA x : ~IsNaN(x))
    IN  IF some = <<>> THEN NaN ELSE Quot(SumNum(some, 1), Int2Num(Len(some)))

\* a zero fill
Fillna_zero(col, v) == [i \in 1..Len(col) |-> IF IsNaN(col[i]) THEN Int2Num(0) ELSE col[i]]

\* Series.fillna(v)
Fillna(col, v) == [i \in 1..Len(col) |-> IF IsNaN(col[i]) THEN v ELSE col[i]]

cell_to_region(lat, lon) ==
    IF lat >= 460 THEN "Washington"
    ELSE IF lat >= 420 THEN "Oregon"
    ELSE IF lat >= 380 THEN "Northern California"
    ELSE IF lat >= 350 THEN "Central California"
    ELSE "Southern California"

\* lines 110-122: the feature table, one row per cell of `latest`
FeatureTable(latest) ==
    LET keys == GroupKeys(latest)
        braw == [i \in 1..Len(keys) |-> b_value(Column(Group(latest, keys[i]), "mag"))]
        bval == Fillna(braw, MeanSkipNa(braw))
    IN  [i \in 1..Len(keys) |->
            LET g == Group(latest, keys[i])
            IN  [cell       |-> keys[i],
                 N          |-> Len(g),
                 mean_mag   |-> Fin(SumSeq(Column(g, "mag"), 1), Len(g)),
                 max_mag    |-> MaxSeq(Column(g, "mag"), 1),
                 mean_depth |-> Fin(SumSeq(Column(g, "depth"), 1), Len(g)),
                 lat        |-> g[1].grid_lat,
                 lon        |-> g[1].grid_lon,
                 b_val      |-> bval[i],
                 region     |-> cell_to_region(g[1].grid_lat, g[1].grid_lon)]]

RECURSIVE SortDesc(_)
\* sort_values("mag", ascending=False): on a column as short as the ones
\* here (at most 16 rows) the sort is an insertion sort and rows of equal
\* magnitude keep their order
SortDesc(rows) ==
    IF rows = <<>> THEN <<>>
    ELSE LET m == MaxSeq(Column(rows, "mag"), 1)
         IN  SelectSeq(rows, LAMBDA r : r.mag = m) \o SortDesc(SelectSeq(rows, LAMBDA r : r.mag # m))

\* drop_duplicates("cell"): the first row of every cell
DropDuplicates(rows) ==
    LET keep == {i \in 1..Len(rows) : \A j \in 1..(i - 1) : rows[j].cell # rows[i].cell}
        RECURSIVE Pick(_)
        Pick(i) == IF i > Len(rows) THEN <<>>
                   ELSE (IF i \in keep THEN <<rows[i]>> ELSE <<>>) \o Pick(i + 1)
    IN  Pick(1)

\* lines 124-132
NotableMap(latest) ==
    LET notable == DropDuplicates(SortDesc(latest))
    IN  [c \in {notable[i].cell : i \in 1..Len(notable)} |->
            LET r == notable[CHOOSE i \in 1..Len(notable) : notable[i].cell = c]
            IN  [mag |-> r.mag, place |-> r.place, time |-> r.time, depth |-> r.depth]]

\* scaler.pkl: column means and scales, in the units of the feature columns
\* and with the scaled value being the rotation angle in units of pi/2
scaler ==
    [mean  |-> <<Int2Num(2), Int2Num(35), Int2Num(40), Int2Num(80), Int2Num(1)>>,
     scale |-> <<Int2Num(1), Int2Num(5), Int2Num(5), Int2Num(20), Fin(1, 2)>>]

\* X = features[feature_cols].values; X_scaled = scaler.transform(X)
Transform(table) ==
    [i \in 1..Len(table) |->
        LET x == <<Int2Num(table[i].N), table[i].mean_mag, Int2Num(table[i].max_mag),
                   table[i].mean_depth, table[i].b_val>>
        IN  [j \in 1..5 |-> Quot(Sub(x[j], scaler.mean[j]), scaler.scale[j])]]

\* lines 88-143: the table, the features, the notable events, the scaled rows
run_inference_aggregate ==
    /\ pc = "start"
    /\ IF "time" \notin Columns(raw)
       THEN /\ pc' = "raised"
            /\ ret' = Raise("KeyError")
            /\ UNCHANGED <<df, features, notable_map, X_scaled>>
       ELSE /\ df' = MakeDf(raw)
            /\ features' = FeatureTable(Latest(df'))
            /\ notable_map' = NotableMap(Latest(df'))
            /\ X_scaled' = Transform(features')
            /\ pc' = "scoring"
            /\ UNCHANGED ret
    /\ UNCHANGED <<req, counts, tape, dev, weights, risk_cells, out, prob, risk,
                   raw, geojson_features>>

RECURSIVE Pow10(_)
Pow10(e) == IF e = 0 THEN 1 ELSE 10 * Pow10(e - 1)

\* round(x, digits): to the nearest, a tie to the even neighbour
Round(x, digits) ==
    IF ~IsFin(x) THEN x
    ELSE LET sc == Pow10(digits)
             lo == (x.n * sc) \div x.d
             r2 == 2 * ((x.n * sc) % x.d)
             up == IF r2 > x.d THEN 1 ELSE IF r2 < x.d THEN 0 ELSE lo % 2
         IN  Fin(lo + up, sc)

\* notable_map.get(row["cell"], None)
NoEvent == [mag |-> -1, place |-> "None", time |-> -1, depth |-> -1]
GetNotable(c) == IF c \in DOMAIN notable_map THEN notable_map[c] ELSE NoEvent

\* the properties of the record of table row i (b_value stays in units of
\* log10(e); rounding keeps nan and inf)
RiskCell(row, p, level) ==
    [type          |-> "risk_cell",
     cell          |-> row.cell,
     region        |-> row.region,
     risk_prob     |-> Round(p, 4),
     risk_level    |-> level,
     quake_count   |-> row.N,
     mean_mag      |-> Round(Quot(row.mean_mag, Int2Num(10)), 2),
     max_mag       |-> Round(Fin(row.max_mag, 10), 1),
     mean_depth_km |-> Round(Quot(row.mean_depth, Int2Num(10)), 1),
     b_value       |-> row.b_val,
     notable_event |-> GetNotable(row.cell)]

Emitted(type) == SelectSeq(geojson_features, LAMBDA f : f.type = type)

\* lines 146-173: one iteration of the loop over the feature table
run_inference_score ==
    /\ pc = "scoring"
    /\ LET i == Len(Emitted("risk_cell")) + 1
       IN  /\ i <= Len(features)
           /\ ScoreRow(i)
           /\ geojson_features' = Append(geojson_features, RiskCell(features[i], prob', risk'))
    /\ UNCHANGED <<pc, ret, counts, weights, X_scaled, risk_cells,
                   raw, df, features, notable_map>>

Point(row) ==
    [type |-> "earthquake", mag |-> row.mag, depth |-> row.depth,
     place |-> row.place, time |-> row.time, lon |-> row.lon, lat |-> row.lat]

\* lines 175-204: one point per row of df, then the collection is returned
run_inference_points ==
    /\ pc = "scoring"
    /\ Len(Emitted("risk_cell")) = Len(features)
    /\ geojson_features' = geojson_features \o [i \in 1..Len(df) |-> Point(df[i])]
    /\ pc' = "done"
    /\ ret' = Return(Int2Num(Len(geojson_features')))
    /\ UNCHANGED <<req, counts, tape, dev, weights, X_scaled, risk_cells, out, prob, risk,
                   raw, df, features, notable_map>>

----------------------------------------------------------------------------
(* Catalogs *)

Ev(t, m, la, lo, d, p) ==
    [time |-> t, mag |-> m, place |-> p, lat |-> la, lon |-> lo, depth |-> d]

\* events of the newest month (March) and of earlier months, in two cells
EventTypes ==
    { Ev(70, 45, 337, -1179, 100, "A"),
      Ev(75, 45, 325, -1162, 60, "B"),
      Ev(80, 30, 337, -1179, 80, "C"),
      Ev(72, 32, 401, -1243, 50, "D"),
      Ev(85, 50, 401, -1243, 75, "E"),
      Ev(40, 52, 337, -1179, 120, "F"),
      Ev(10, 40, 401, -1243, 30, "G") }

\* n events of the newest month at one place, the first h of magnitude hi
DenseRun(n, h, hi, lo, la, lg) ==
    [i \in 1..n |-> Ev(60 + i, IF i <= h THEN hi ELSE lo, la, lg, 50 + 10 * i, "run")]

Extras ==
    { <<>>,
      <<Ev(66, 36, 361, -1201, 90, "H")>>,
      <<Ev(66, 36, 361, -1201, 90, "H"), Ev(40, 52, 337, -1179, 120, "F")>> }

\* a run in one cell with any number of magnitudes 4.5 among 3.0, a run in
\* another with at most one magnitude below 3.0 among 4.0, and the extras
DenseCatalogs ==
    { DenseRun(n1, h1, 45, 30, 337, -1179) \o DenseRun(n2, n2 - low, 40, 25, 401, -1243) \o x :
        n1 \in 0..MaxRun, h1 \in 0..MaxRun, n2 \in 0..MaxRun, low \in 0..1, x \in Extras }

Catalogs ==
    UNION {Vectors(EventTypes, n) : n \in 0..MaxRows} \cup DenseCatalogs

InitInfer ==
    /\ counts = <<>> /\ tape = <<>> /\ dev = ZeroState(ClassifierQubits)
    /\ X_scaled = <<>> /\ risk_cells = <<>>
    /\ out = NaN /\ prob = NaN /\ risk = ""
    /\ df = <<>> /\ features = <<>>
    /\ notable_map = <<>> /\ geojson_features = <<>>
    /\ ret = NoRet /\ req = NoReq
    /\ pc = "start"
    /\ weights = Tensor(3)
    /\ raw \in Catalogs

NextInfer == run_inference_aggregate \/ run_inference_score \/ run_inference_points

SpecInfer == InitInfer /\ [][NextInfer]_vars

----------------------------------------------------------------------------
(* Properties *)

IsErr(r) == r.kind \in {"ValueError", "IndexError"}

\* C1: both circuit modes reject a feature vector whose length differs from
\* the qubit count (4 for _quantum_anomaly_score, 5 for circuit): the call
\* raises and no circuit is built on a truncated or padded vector.
C1_BothModesReject ==
    pc = "done" =>
        /\ (req.fn = "_quantum_anomaly_score" /\ Len(req.features) # AnomalyQubits)
              => (IsErr(ret) /\ tape = <<>>)
        /\ (req.fn = "circuit" /\ Len(req.features) # ClassifierQubits)
              => (IsErr(ret) /\ tape = <<>>)

\* C2: run_inference on an empty catalog does not raise and returns a
\* collection with no risk-cell record and no earthquake record.
C2_EmptyCatalogIsValid ==
    raw = <<>> =>
        /\ pc # "raised"
        /\ pc = "done" => geojson_features = <<>>

\* C3: the risk level is a step function of the probability with strict
\* thresholds: high iff prob > 0.7, moderate iff 0.4 < prob <= 0.7, low iff
\* prob <= 0.4; 0.7 itself is moderate and 0.4 itself is low.
C3_RiskLevelStep ==
    pc = "done" =>
        /\ risk \in {"high", "moderate", "low"}
        /\ risk = "high" <=> 10 * prob.n > 7 * prob.d
        /\ risk = "moderate" <=> (10 * prob.n > 4 * prob.d /\ 10 * prob.n <= 7 * prob.d)
        /\ risk = "low" <=> 10 * prob.n <= 4 * prob.d
        /\ prob = Fin(7, 10) => risk = "moderate"
        /\ prob = Fin(4, 10) => risk = "low"

C3_Witness == pc = "done" /\ prob = Fin(7, 10) /\ risk = "moderate"

\* the rows of the catalog in its newest month, and those of them in cell c
NewestRows == {i \in 1..Len(raw) : \A j \in 1..Len(raw) : MonthOf(raw[j].time) <= MonthOf(raw[i].time)}
RowKey(i) == CellKey(GridOf(raw[i].lat), GridOf(raw[i].lon))
NewestIn(c) == {i \in NewestRows : RowKey(i) = c}

RECURSIVE SumOver(_, _)
\* the sum of field f of the catalog rows I
SumOver(I, f) ==
    IF I = {} THEN 0 ELSE LET i == CHOOSE x \in I : TRUE IN raw[i][f] + SumOver(I \ {i}, f)

Qualifying(c) == {i \in NewestIn(c) : raw[i].mag >= MMin}
OwnB(r) == b_value(Column(Group(Latest(df), features[r].cell), "mag"))
DefinedCells == {r \in 1..Len(features) : Cardinality(Qualifying(features[r].cell)) >= MinSample}

RECURSIVE SumB(_)
SumB(R) == IF R = {} THEN Int2Num(0)
           ELSE LET r == CHOOSE x \in R : TRUE IN Add(OwnB(r), SumB(R \ {r}))

\* C5: the b-value of a cell is undefined exactly when the cell has fewer
\* than 5 newest-month events of magnitude >= 3.0; an undefined b-value is
\* replaced by the mean of the defined b-values of the batch and never by
\* zero, a defined one is kept; when some cell has a defined b-value, every
\* emitted risk cell carries a defined one.
C5_BValueFill ==
    pc \in {"scoring", "done"} =>
        /\ \A r \in 1..Len(features) :
              /\ IsNaN(OwnB(r)) <=> Cardinality(Qualifying(features[r].cell)) < MinSample
              /\ r \in DefinedCells => features[r].b_val = OwnB(r)
              /\ (r \notin DefinedCells /\ DefinedCells # {}) =>
                    /\ features[r].b_val = Quot(SumB(DefinedCells), Int2Num(Cardinality(DefinedCells)))
                    /\ features[r].b_val # Int2Num(0)
              /\ (r \notin DefinedCells /\ DefinedCells = {}) => IsNaN(features[r].b_val)
        /\ DefinedCells # {} =>
              \A k \in 1..Len(geojson_features) :
                  geojson_features[k].type = "risk_cell" => ~IsNaN(geojson_features[k].b_value)

C5_Witness ==
    /\ pc = "done"
    /\ Len(features) = 3
    /\ \E r1, r2 \in DefinedCells : IsFin(OwnB(r1)) /\ IsFin(OwnB(r2)) /\ OwnB(r1) # OwnB(r2)
    /\ \E r \in 1..Len(features) : r \notin DefinedCells /\ IsFin(features[r].b_val)

\* C6: every event is binned to (floor(lat/2)*2, floor(lon/2)*2), for
\* negative coordinates too: grid <= coordinate < grid + 2 on both axes,
\* (33.7, -117.9) falls in (32, -118), and two events have the same cell key
\* exactly when their grid values are equal.
C6_GridFloor ==
    pc \in {"scoring", "done"} =>
        /\ \A i \in 1..Len(df) :
              /\ df[i].grid_lat <= df[i].lat /\ df[i].lat < df[i].grid_lat + 20
              /\ df[i].grid_lon <= df[i].lon /\ df[i].lon < df[i].grid_lon + 20
              /\ df[i].grid_lat % 20 = 0 /\ df[i].grid_lon % 20 = 0
              /\ (df[i].lat = 337 /\ df[i].lon = -1179) =>
                    (df[i].grid_lat = 320 /\ df[i].grid_lon = -1180 /\ df[i].cell = "32.0,-118.0")
        /\ \A i, j \in 1..Len(df) :
              df[i].cell = df[j].cell <=>
                  (df[i].grid_lat = df[j].grid_lat /\ df[i].grid_lon = df[j].grid_lon)

C6_Witness ==
    /\ pc = "done"
    /\ \E i, j \in 1..Len(df) :
          /\ df[i].lat = 337 /\ df[i].lon = -1179
          /\ df[j].cell # df[i].cell
          /\ df[j].lon < 0

\* C7: on [1, 1, 1, 1] the four RY(pi) take |0000> to the basis state with
\* every qubit set, the CNOT chain takes that to one basis state, all 1000
\* shots read the same bitstring and the score is the same on every run.
C7_AllOnesDeterministic ==
    (pc = "done" /\ req.fn = "_quantum_anomaly_score"
        /\ req.features = <<Fin(1, 1), Fin(1, 1), Fin(1, 1), Fin(1, 1)>>) =>
        /\ ret.kind = "ok"
        /\ Support(Run(ZeroState(AnomalyQubits), SubSeq(tape, 1, 4), 1)) = {15}
        /\ Cardinality(Support(Run(ZeroState(AnomalyQubits), tape, 1))) = 1
        /\ counts = ("0101" :> Shots)
        /\ ret.val = Int2Num(0)

C7_Witness ==
    /\ pc = "done" /\ req.fn = "_quantum_anomaly_score"
    /\ req.features = <<Fin(1, 1), Fin(1, 1), Fin(1, 1), Fin(1, 1)>>
    /\ ret.kind = "ok"

\* C8: the classifier circuit applies RY(f_i) on qubit i = 0..4, then for
\* each layer in tensor order CNOT(i, i+1) for i = 0..3 followed by
\* RY(w[layer][i]) on qubit i = 0..4, and its output, the Pauli-Z
\* expectation of qubit 0, is mapped to risk_probability = (1 - output) / 2.
C8_GateOrder ==
    (pc = "scoring" /\ req.fn = "circuit") =>
        LET f == req.features
            L == Len(weights)
        IN  /\ Len(tape) = 5 + 9 * L
            /\ \A i \in 1..5 : tape[i] = RyGate(f[i], i - 1)
            /\ \A l \in 1..L :
                  /\ \A i \in 1..4 : tape[5 + 9 * (l - 1) + i] = CnotGate(i - 1, i)
                  /\ \A i \in 1..5 : tape[5 + 9 * (l - 1) + 4 + i] = RyGate(weights[l][i], i - 1)
            /\ dev = Run(ZeroState(ClassifierQubits), tape, 1)
            /\ out = ExpvalZ(dev, 0)
            /\ prob = ProbOne(dev, 0)
            /\ IsFin(out) => Add(out, Add(prob, prob)) = Int2Num(1)

C8_Witness ==
    /\ pc = "scoring" /\ req.fn = "circuit"
    /\ Len(weights) = 2
    /\ IsFin(prob) /\ prob.n # 0 /\ prob.n # prob.d

\* the swaps of two neighbouring rows of the catalog
Swapped(k) == [i \in 1..Len(raw) |-> IF i = k THEN raw[k + 1] ELSE IF i = k + 1 THEN raw[k] ELSE raw[i]]

\* C9: every risk cell carries a notable event that is a newest-month event
\* of the cell with the cell's maximum magnitude, and ties are broken so
\* that the same events in another row order give the same notable event.
C9_NotableDeterministic ==
    pc \in {"scoring", "done"} =>
        /\ \A r \in 1..Len(features) :
              /\ features[r].cell \in DOMAIN notable_map
              /\ notable_map[features[r].cell].mag = features[r].max_mag
              /\ \E i \in NewestIn(features[r].cell) :
                    notable_map[features[r].cell] =
                        [mag |-> raw[i].mag, place |-> raw[i].place,
                         time |-> raw[i].time, depth |-> raw[i].depth]
        /\ \A k \in 1..(Len(raw) - 1) : NotableMap(Latest(MakeDf(Swapped(k)))) = notable_map

RECURSIVE TableOrder(_, _)
\* the results of scoring the rows i.. of the batch one after the other on
\* the device left in state d
TableOrder(i, d) ==
    IF i > Len(X_scaled) THEN <<>>
    ELSE CHOOSE results \in
            { <<[scored |-> TRUE,
                 prob   |-> RiskProb(ExpvalZ(final, 0)),
                 risk   |-> RiskLevel(RiskProb(ExpvalZ(final, 0)))]>> \o TableOrder(i + 1, final)
              : final \in {Run(InitialState(d), circuit_tape(X_scaled[i], weights), 1)} } : TRUE

\* every cell scored so far has the result it has in table order
ScoredAsInTableOrder ==
    pc = "scoring" =>
        \A i \in 1..Len(X_scaled) :
            risk_cells[i].scored => risk_cells[i] = TableOrder(1, ZeroState(ClassifierQubits))[i]

====
